---- MODULE Spec2Model ----
(***************************************************************************)
(* Model of the fitness-app-api backend: the trainer-client connection     *)
(* state machine (connections/views.py, connections/models.py), the        *)
(* capability model (authentication/models.py) and the personal-record     *)
(* engine (workouts/views.py, workouts/models.py).                          *)
(***************************************************************************)
EXTENDS Integers, Sequences, FiniteSets, TLC

\* ------------------------------------------------------------------ bounds
MaxTime  == 2      \* last instant of the clock (timezone.now())
NProcs   == 2      \* request_trainer_connection calls that may be in flight at once
MaxWorkouts == 3   \* workout logs created
NWorkers == 2      \* workout creations that may be in flight at once
MaxSets  == 3      \* sets of an exercise log (SpecSets)
MaxShort == 3      \* days of a short workout history, and days back of its gap (SpecStreak)
MaxOver  == 2      \* days by which a long workout history exceeds the streak cap (SpecStreak)

\* --------------------------------------------------------------- constants
NONE == -1         \* SQL NULL / Python None

Trainers == {"t1", "t2"}
Clients  == {"c1", "c2"}
Users    == Trainers \cup Clients
\* a primary key no User row has
NoUser   == "nobody"

\* User.role
Role == [u \in Users |-> IF u \in Trainers THEN "trainer" ELSE "client"]

STATUS_CHOICES == {"pending", "active", "paused", "ended", "rejected"}

PermissionFlags == {"can_view_workouts", "can_assign_workouts", "can_view_nutrition",
                    "can_view_progress_photos", "can_view_body_metrics",
                    "can_comment_workouts"}

\* the request body of update_connection_permissions tried by the model
\* (partial=True: any subset of the six flags may be present)
PermissionRequests ==
    { [can_view_workouts |-> FALSE, can_view_body_metrics |-> TRUE] }

\* 'reason' values of reject_connection_request tried by the model
Reasons == {"full"}

\* Profile.objects.create(user=instance): the row of the field defaults
\* (accepting, no hourly rate, no subscription, max_clients 20)
create_user_profile ==
    [is_accepting_clients |-> TRUE, subscription_active |-> FALSE,
     max_clients |-> 20, hourly_rate |-> NONE]

\* Profile rows when the model starts: t1 has set an hourly rate, has a paid
\* subscription and takes two clients; t2 has the profile create_user_profile
\* gave it when the user was created
InitialProfile ==
    [t \in Trainers |->
        IF t = "t1"
        THEN [is_accepting_clients |-> TRUE, subscription_active |-> TRUE,
              max_clients |-> 2, hourly_rate |-> 50]
        ELSE create_user_profile]

\* request bodies of PATCH profile/ tried by the model
ProfilePatches ==
    { [hourly_rate |-> NONE], [max_clients |-> 0], [max_clients |-> 1],
      [max_clients |-> NONE],
      [is_accepting_clients |-> FALSE] }

VARIABLES
    conns,     \* TrainerClientConnection table: sequence of rows, id = index
    profile,   \* Profile rows of the trainers
    now,       \* timezone.now()
    procs,     \* request_trainer_connection calls in flight (SpecRace)
    resp,      \* the last HTTP response: [op, user, id, code, error]
    workouts,  \* WorkoutLog table with its ExerciseLog children, id = index
    prs,       \* PersonalRecord table, id = index
    wprocs,    \* WorkoutLogCreateView.create calls in flight
    reported,  \* per workout id: the prs_achieved list its creation returned
    stats      \* the calculate_streak call of workout_stats: [user, pc, current_date, streak]

connVars == <<conns, profile, now, procs, resp>>
prVars   == <<workouts, prs, wprocs, reported, stats>>
vars     == <<connVars, prVars>>

\* connection ids a request may name (those beyond Len(conns) match no row)
Ids == 1..Cardinality(Clients)

\* truthiness of a nullable number (None and 0 are falsy)
Truthy(x) == x # NONE /\ x # 0

\* ------------------------------------------------- authentication/models.py
current_client_count(u) ==
    IF Role[u] # "trainer" THEN 0
    ELSE Cardinality({i \in DOMAIN conns :
                        conns[i].trainer = u /\ conns[i].status = "active"})

can_accept_clients(u) ==
    IF Role[u] # "trainer" THEN FALSE
    ELSE IF ~profile[u].is_accepting_clients THEN FALSE
    ELSE IF ~profile[u].subscription_active THEN FALSE
    ELSE IF Truthy(profile[u].max_clients)
            /\ current_client_count(u) >= profile[u].max_clients THEN FALSE
    ELSE TRUE

\* Profile.clean, the pricing rule: a trainer who accepts clients has a rate
ProfileClean(u, row) ==
    Role[u] = "trainer" => ~(row.is_accepting_clients /\ ~Truthy(row.hourly_rate))

\* ---------------------------------------------------- connections/models.py
\* mutant: can_view_nutrition defaults to True
NewConnection_NutritionOpen(t, c) ==
    [trainer |-> t, client |-> c, status |-> "pending",
     can_view_workouts |-> TRUE, can_assign_workouts |-> TRUE,
     can_view_nutrition |-> TRUE, can_view_progress_photos |-> FALSE,
     can_view_body_metrics |-> FALSE, can_comment_workouts |-> TRUE,
     rejection_reason |-> "",
     requested_at |-> now, connected_at |-> NONE, ended_at |-> NONE]

\* a new row with the field defaults of the model
NewConnection(t, c) ==
    [trainer |-> t, client |-> c, status |-> "pending",
     can_view_workouts |-> TRUE, can_assign_workouts |-> TRUE,
     can_view_nutrition |-> FALSE, can_view_progress_photos |-> FALSE,
     can_view_body_metrics |-> FALSE, can_comment_workouts |-> TRUE,
     rejection_reason |-> "",
     requested_at |-> now, connected_at |-> NONE, ended_at |-> NONE]

\* mutant: clean() checks nothing
clean_Missing(row) == TRUE

\* TrainerClientConnection.clean
clean(row) ==
    /\ Role[row.trainer] = "trainer"
    /\ Role[row.client] = "client"
    /\ row.trainer # row.client

\* mutant: the table has no unique constraint
UniqueTogether_Missing(tbl, t, c, self) == TRUE

\* Meta.unique_together = ['trainer', 'client']: may a row for (t, c) be stored
\* next to the rows of table tbl, the row with id self excepted
UniqueTogether(tbl, t, c, self) ==
    \A i \in DOMAIN tbl : i = self \/ ~(tbl[i].trainer = t /\ tbl[i].client = c)

\* full_clean(): clean() and validate_unique()
full_clean(row, self) ==
    clean(row) /\ UniqueTogether(conns, row.trainer, row.client, self)

\* objects.filter(trainer=t, client=c).first(): the id of the row, 0 if none
\* (Meta.ordering is -requested_at; with at most one row per pair any order agrees)
Existing(t, c) ==
    LET m == {i \in DOMAIN conns : conns[i].trainer = t /\ conns[i].client = c}
    IN IF m = {} THEN 0 ELSE CHOOSE i \in m : \A j \in m : i >= j

\* Response(body, status=code); error names the {'error': ...} text of a refused
\* connection request, "" for every other response
Response(op, u, id, code) ==
    [op |-> op, user |-> u, id |-> id, code |-> code, error |-> ""]

Idle == [pc |-> "idle", client |-> NoUser, trainer |-> NoUser]

IdleStats == [user |-> NoUser, pc |-> "idle", current_date |-> 0, streak |-> 0]

IdleW == [pc |-> "idle", wid |-> 0, pos |-> 0, pr |-> 0, local |-> <<>>, achieved |-> <<>>]

Init ==
    /\ conns = <<>>
    /\ profile = InitialProfile
    /\ now = 1
    /\ procs = [p \in 1..NProcs |-> Idle]
    /\ resp = Response("none", NoUser, 0, 0)
    /\ workouts = <<>>
    /\ prs = <<>>
    /\ wprocs = [p \in 1..NWorkers |-> IdleW]
    /\ reported = <<>>
    /\ stats = IdleStats

\* the clock advances between requests
Tick ==
    /\ now < MaxTime
    /\ now' = now + 1
    /\ UNCHANGED <<conns, profile, procs, resp, prVars>>

\* ----------------------------------------------------- connections/views.py
\* request_trainer_connection up to the existence check: which early return is
\* taken, "" when the handler goes on to create the row
\*   NotClient       'Only clients can request trainer connections.'
\*   TrainerNotFound "Trainer not found."
\*   NotAccepting    "This trainer is not accepting new clients."
\*   AlreadyPending  'Request already pending.'
\*   AlreadyActive   'You are already connected to this trainer.'
\* (mutants: RequestCheckError_NoCapability without the can_accept_clients
\* check, RequestCheckError_NoActive without the active branch)
RequestCheckError_NoCapability(u, tid) ==
    IF Role[u] # "client" THEN "NotClient"
    ELSE IF tid \notin Users \/ Role[tid] # "trainer" THEN "TrainerNotFound"
    ELSE LET e == Existing(tid, u)
         IN IF e # 0 /\ conns[e].status = "pending" THEN "AlreadyPending"
            ELSE IF e # 0 /\ conns[e].status = "active" THEN "AlreadyActive"
            ELSE ""

RequestCheckError_NoActive(u, tid) ==
    IF Role[u] # "client" THEN "NotClient"
    ELSE IF tid \notin Users \/ Role[tid] # "trainer" THEN "TrainerNotFound"
    ELSE IF ~can_accept_clients(tid) THEN "NotAccepting"
    ELSE LET e == Existing(tid, u)
         IN IF e # 0 /\ conns[e].status = "pending" THEN "AlreadyPending"
            ELSE ""

RequestCheckError(u, tid) ==
    IF Role[u] # "client" THEN "NotClient"
    ELSE IF tid \notin Users \/ Role[tid] # "trainer" THEN "TrainerNotFound"
    ELSE IF ~can_accept_clients(tid) THEN "NotAccepting"
    ELSE LET e == Existing(tid, u)
         IN IF e # 0 /\ conns[e].status = "pending" THEN "AlreadyPending"
            ELSE IF e # 0 /\ conns[e].status = "active" THEN "AlreadyActive"
            ELSE ""

\* the status code of the early return, 0 when there is none
RequestCheckCode(u, tid) ==
    LET err == RequestCheckError(u, tid)
    IN IF err = "" THEN 0 ELSE IF err = "NotClient" THEN 403 ELSE 400

\* the response of the early return
Refused(u, tid) ==
    [Response("request", u, 0, RequestCheckCode(u, tid)) EXCEPT
        !.error = RequestCheckError(u, tid)]

\* the whole handler, run without interleaving
RequestConnection(u, tid) ==
    LET code == RequestCheckCode(u, tid)
        row  == NewConnection(tid, u)
    IN /\ IF code # 0
          THEN /\ resp' = Refused(u, tid)
               /\ UNCHANGED conns
          ELSE IF ~full_clean(row, 0)
          THEN \* ValidationError raised by save(), not caught by the view
               /\ resp' = Response("request", u, 0, 500)
               /\ UNCHANGED conns
          ELSE /\ conns' = Append(conns, row)
               /\ resp' = Response("request", u, Len(conns) + 1, 201)
       /\ UNCHANGED <<profile, now, procs, prVars>>

\* TrainerClientConnection(trainer=t, client=c).save() of a new instance, for any
\* two users: full_clean(), then the INSERT; a ValidationError stores nothing
save(t, c) ==
    /\ IF full_clean(NewConnection(t, c), 0)
       THEN /\ conns' = Append(conns, NewConnection(t, c))
            /\ resp' = Response("save", c, Len(conns) + 1, 0)
       ELSE /\ resp' = [Response("save", c, 0, 0) EXCEPT !.error = "ValidationError"]
            /\ UNCHANGED conns
    /\ UNCHANGED <<profile, now, procs, prVars>>

\* mutants of the accept lookup: the owner filter dropped, the status filter dropped
AcceptLookup_AnyTrainer(u, id) ==
    id \in DOMAIN conns /\ conns[id].status = "pending"

AcceptLookup_AnyStatus(u, id) ==
    id \in DOMAIN conns /\ conns[id].trainer = u

\* objects.get(id=connection_id, trainer=request.user, status='pending')
AcceptLookup(u, id) ==
    id \in DOMAIN conns /\ conns[id].trainer = u /\ conns[id].status = "pending"

\* save(): full_clean(), then the UPDATE of the row
SaveRow(op, u, id, row) ==
    IF full_clean(row, id)
    THEN /\ conns' = [conns EXCEPT ![id] = row]
         /\ resp' = Response(op, u, id, 200)
    ELSE /\ resp' = Response(op, u, id, 500)
         /\ UNCHANGED conns

accept_connection_request(u, id) ==
    /\ IF Role[u] # "trainer"
       THEN /\ resp' = Response("accept", u, id, 403)
            /\ UNCHANGED conns
       ELSE IF ~AcceptLookup(u, id)
       THEN /\ resp' = Response("accept", u, id, 404)
            /\ UNCHANGED conns
       ELSE SaveRow("accept", u, id,
                    [conns[id] EXCEPT !.status = "active", !.connected_at = now])
    /\ UNCHANGED <<profile, now, procs, prVars>>

\* mutant of the reject lookup: the status filter dropped
RejectLookup_AnyStatus(u, id) ==
    id \in DOMAIN conns /\ conns[id].trainer = u

\* objects.get(id=connection_id, trainer=request.user, status='pending')
RejectLookup(u, id) ==
    id \in DOMAIN conns /\ conns[id].trainer = u /\ conns[id].status = "pending"

reject_connection_request(u, id, reason) ==
    /\ IF Role[u] # "trainer"
       THEN /\ resp' = Response("reject", u, id, 403)
            /\ UNCHANGED conns
       ELSE IF ~RejectLookup(u, id)
       THEN /\ resp' = Response("reject", u, id, 404)
            /\ UNCHANGED conns
       ELSE SaveRow("reject", u, id,
                    [conns[id] EXCEPT !.status = "rejected", !.rejection_reason = reason])
    /\ UNCHANGED <<profile, now, procs, prVars>>

\* mutant of the permissions lookup: the owner filter dropped
PermissionsLookup_AnyClient(u, id) ==
    id \in DOMAIN conns

\* objects.get(id=connection_id, client=request.user)
PermissionsLookup(u, id) ==
    id \in DOMAIN conns /\ conns[id].client = u

\* mutant: a flag the body does not name is reset
ApplyPermissions_Reset(row, req) ==
    [f \in DOMAIN row |-> IF f \in DOMAIN req THEN req[f]
                           ELSE IF f \in PermissionFlags THEN FALSE ELSE row[f]]

\* UpdatePermissionsSerializer(connection, data, partial=True).save()
ApplyPermissions(row, req) ==
    [f \in DOMAIN row |-> IF f \in DOMAIN req THEN req[f] ELSE row[f]]

update_connection_permissions(u, id, req) ==
    /\ IF Role[u] # "client"
       THEN /\ resp' = Response("permissions", u, id, 403)
            /\ UNCHANGED conns
       ELSE IF ~PermissionsLookup(u, id)
       THEN /\ resp' = Response("permissions", u, id, 404)
            /\ UNCHANGED conns
       ELSE SaveRow("permissions", u, id, ApplyPermissions(conns[id], req))
    /\ UNCHANGED <<profile, now, procs, prVars>>

\* objects.get(Q(trainer=request.user) | Q(client=request.user), id=connection_id)
EndLookup(u, id) ==
    id \in DOMAIN conns /\ (conns[id].trainer = u \/ conns[id].client = u)

end_connection(u, id) ==
    /\ IF ~EndLookup(u, id)
       THEN /\ resp' = Response("end", u, id, 404)
            /\ UNCHANGED conns
       ELSE SaveRow("end", u, id,
                    [conns[id] EXCEPT !.status = "ended", !.ended_at = now])
    /\ UNCHANGED <<profile, now, procs, prVars>>

\* ProfileView (RetrieveUpdateAPIView, ProfileSerializer) PATCH by trainer u:
\* the writable fields of the body are set and the row is saved; neither the
\* serializer nor Profile.save runs Profile.clean
ProfileUpdate(u, data) ==
    /\ profile' = [profile EXCEPT ![u] =
                      [f \in DOMAIN profile[u] |->
                          IF f \in DOMAIN data THEN data[f] ELSE profile[u][f]]]
    /\ resp' = Response("profile", u, 0, 200)
    /\ UNCHANGED <<conns, now, procs, prVars>>

\* ---- request_trainer_connection as the steps concurrent calls interleave at
\* lines 58-88: role check, serializer validation, existence check
RequestCheck(p, u, tid) ==
    LET code == RequestCheckCode(u, tid)
    IN /\ procs[p].pc = "idle"
       /\ IF code # 0
          THEN /\ resp' = Refused(u, tid)
               /\ UNCHANGED procs
          ELSE /\ procs' = [procs EXCEPT ![p] = [pc |-> "validate", client |-> u, trainer |-> tid]]
               /\ UNCHANGED resp
       /\ UNCHANGED <<conns, profile, now, prVars>>

\* objects.create() -> save() -> full_clean(): the validate_unique query
RequestValidate(p) ==
    /\ procs[p].pc = "validate"
    /\ IF full_clean(NewConnection(procs[p].trainer, procs[p].client), 0)
       THEN /\ procs' = [procs EXCEPT ![p].pc = "insert"]
            /\ UNCHANGED resp
       ELSE /\ procs' = [procs EXCEPT ![p] = Idle]
            /\ resp' = Response("request", procs[p].client, 0, 500)
    /\ UNCHANGED <<conns, profile, now, prVars>>

\* super().save(): the INSERT, under the table's unique constraint
RequestInsert(p) ==
    /\ procs[p].pc = "insert"
    /\ IF UniqueTogether(conns, procs[p].trainer, procs[p].client, 0)
       THEN /\ conns' = Append(conns, NewConnection(procs[p].trainer, procs[p].client))
            /\ resp' = Response("request", procs[p].client, Len(conns) + 1, 201)
       ELSE \* IntegrityError, not caught by the view
            /\ resp' = Response("request", procs[p].client, 0, 500)
            /\ UNCHANGED conns
    /\ procs' = [procs EXCEPT ![p] = Idle]
    /\ UNCHANGED <<profile, now, prVars>>

Next ==
    \/ Tick
    \/ \E u \in Users, tid \in Users \cup {NoUser} : RequestConnection(u, tid)
    \/ \E u \in Users, id \in Ids : accept_connection_request(u, id)
    \/ \E u \in Users, id \in Ids, reason \in Reasons : reject_connection_request(u, id, reason)
    \/ \E u \in Users, id \in Ids, req \in PermissionRequests :
          update_connection_permissions(u, id, req)
    \/ \E u \in Users, id \in Ids : end_connection(u, id)

Spec == Init /\ [][Next]_vars

\* trainers edit their profiles while clients request and trainers accept
NextProfile ==
    \/ \E u \in Trainers, data \in ProfilePatches : ProfileUpdate(u, data)
    \/ \E u \in Users, tid \in Users \cup {NoUser} : RequestConnection(u, tid)
    \/ \E u \in Users, id \in Ids : accept_connection_request(u, id)

SpecProfile == Init /\ [][NextProfile]_vars

\* connections saved through the model, for any pair of users, next to the
\* handlers that create and update them
NextSave ==
    \/ \E t \in Users, c \in Users : save(t, c)
    \/ \E u \in Users, tid \in Users \cup {NoUser} : RequestConnection(u, tid)
    \/ \E u \in Users, id \in Ids : accept_connection_request(u, id)
    \/ \E u \in Users, id \in Ids : end_connection(u, id)

SpecSave == Init /\ [][NextSave]_vars

\* concurrent connection requests: the request handler runs as its three steps,
\* interleaved with each other and with the handlers that change a status (the
\* only field the request handler reads); the clock and the permission flags,
\* which it never reads, stay as they are
NextRace ==
    \/ \E p \in 1..NProcs, u \in Users, tid \in Users \cup {NoUser} : RequestCheck(p, u, tid)
    \/ \E p \in 1..NProcs : RequestValidate(p)
    \/ \E p \in 1..NProcs : RequestInsert(p)
    \/ \E u \in Users, id \in Ids : accept_connection_request(u, id)
    \/ \E u \in Users, id \in Ids, reason \in Reasons : reject_connection_request(u, id, reason)
    \/ \E u \in Users, id \in Ids : end_connection(u, id)

SpecRace == Init /\ [][NextRace]_vars

\* ------------------------------------------------------- workouts/models.py
\* Weights and volumes are counted in thousandths (100000 is 100.000), so that
\* a JSON number with more than two decimals can be told from its stored value.
Exercises == {"squat", "bench"}
PRUsers   == Clients
Dates     == {1, 2}
\* the workout_date of concurrent creations: check_for_prs only copies the date
\* to the row and never reads it back
RaceDates == {1}

\* DecimalField(decimal_places=2): one hundredth, in thousandths
Quantum == 10

\* the value a DecimalField(decimal_places=2) column holds after x is written to
\* it (django.db.backends.utils.format_number: quantize, ROUND_HALF_EVEN)
Quantize(x) ==
    LET q == x \div Quantum
        r == x % Quantum
    IN IF 2 * r < Quantum THEN q * Quantum
       ELSE IF 2 * r > Quantum THEN (q + 1) * Quantum
       ELSE IF q % 2 = 0 THEN q * Quantum ELSE (q + 1) * Quantum

\* set_data.get(key, default)
Get(set_data, key, default) == IF key \in DOMAIN set_data THEN set_data[key] ELSE default

\* mutant: every set counts, completed or not
RECURSIVE calculate_volume_AllSets(_)
calculate_volume_AllSets(sets_data) ==
    IF sets_data = <<>> THEN 0
    ELSE LET set_data == Head(sets_data)
         IN Get(set_data, "reps", 0) * Get(set_data, "weight", 0)
               + calculate_volume_AllSets(Tail(sets_data))

\* ExerciseLog.calculate_volume
RECURSIVE calculate_volume(_)
calculate_volume(sets_data) ==
    IF sets_data = <<>> THEN 0
    ELSE LET set_data == Head(sets_data)
         IN (IF Get(set_data, "completed", FALSE)
             THEN Get(set_data, "reps", 0) * Get(set_data, "weight", 0)
             ELSE 0) + calculate_volume(Tail(sets_data))

\* mutant: every set counts, completed or not
get_max_weight_AllSets(sets_data) ==
    LET weights == {Get(sets_data[i], "weight", 0) : i \in DOMAIN sets_data}
    IN IF weights = {} THEN 0 ELSE CHOOSE w \in weights : \A x \in weights : w >= x

\* ExerciseLog.get_max_weight
get_max_weight(sets_data) ==
    LET weights == {Get(sets_data[i], "weight", 0) :
                      i \in {j \in DOMAIN sets_data : Get(sets_data[j], "completed", FALSE)}}
    IN IF weights = {} THEN 0 ELSE CHOOSE w \in weights : \A x \in weights : w >= x

\* exercise logs a created workout may carry
SquatPlain  == [exercise |-> "squat",
                sets_data |-> <<[set |-> 1, reps |-> 10, weight |-> 100000, completed |-> TRUE]>>]
SquatFine   == [exercise |-> "squat",
                sets_data |-> <<[set |-> 1, reps |-> 10, weight |-> 100004, completed |-> TRUE]>>]
SquatHeavy  == [exercise |-> "squat",
                sets_data |-> <<[set |-> 1, reps |-> 10, weight |-> 100000, completed |-> TRUE],
                                [set |-> 2, reps |-> 8,  weight |-> 110000, completed |-> TRUE],
                                [set |-> 3, reps |-> 5,  weight |-> 120000, completed |-> FALSE]>>]
BenchUndone == [exercise |-> "bench",
                sets_data |-> <<[set |-> 1, reps |-> 5, weight |-> 100000]>>]

\* set records of a request body: two completed sets, an incomplete one and one
\* without a completed flag; and every sets_data of up to MaxSets of them
SetRecords ==
    { [set |-> 1, reps |-> 10, weight |-> 100000, completed |-> TRUE],
      [set |-> 2, reps |-> 8,  weight |-> 110000, completed |-> TRUE],
      [set |-> 3, reps |-> 5,  weight |-> 120000, completed |-> FALSE],
      [set |-> 4, reps |-> 10, weight |-> 100000] }

SetsChoices == UNION { [1..n -> SetRecords] : n \in 0..MaxSets }

\* request bodies of WorkoutLogCreateView tried by the model (exercise_logs)
WorkoutChoices ==
    { <<SquatPlain>>, <<SquatFine>>, <<SquatHeavy>>, <<BenchUndone, SquatPlain>> }

\* -------------------------------------------------------- workouts/views.py
\* the value check_for_prs compares for a PR type, and the column that holds it
ValueOf(log, kind) ==
    IF kind = "max_weight" THEN get_max_weight(log.sets_data)
    ELSE calculate_volume(log.sets_data)

Column(kind) == IF kind = "max_weight" THEN "weight" ELSE "volume"

\* mutant: the checks are made whatever the value
Work_Unguarded(logs) ==
    [k \in 1..(2 * Len(logs)) |->
        [idx |-> (k + 1) \div 2,
         kind |-> IF k % 2 = 1 THEN "max_weight" ELSE "max_volume"]]

\* the loop of check_for_prs: for each exercise log the max-weight check, then
\* the volume check, each skipped unless its value is > 0
Work(logs) ==
    LET all == [k \in 1..(2 * Len(logs)) |->
                  [idx |-> (k + 1) \div 2,
                   kind |-> IF k % 2 = 1 THEN "max_weight" ELSE "max_volume"]]
        Wanted(w) == ValueOf(logs[w.idx], w.kind) > 0
    IN SelectSeq(all, Wanted)

\* what process p is working on
CurWork(p)  == Work(workouts[wprocs[p].wid].exercise_logs)[wprocs[p].pos]
CurLog(p)   == workouts[wprocs[p].wid].exercise_logs[CurWork(p).idx]
CurValue(p) == ValueOf(CurLog(p), CurWork(p).kind)
CurUser(p)  == workouts[wprocs[p].wid].user

\* the PersonalRecord row with this user, exercise and pr_type: its id, 0 if none
LookupPR(u, e, kind) ==
    LET m == {i \in DOMAIN prs :
                prs[i].user = u /\ prs[i].exercise = e /\ prs[i].pr_type = kind}
    IN IF m = {} THEN 0 ELSE CHOOSE i \in m : \A j \in m : i <= j

\* the row get_or_create inserts (defaults=...)
NewPR(p) ==
    [user |-> CurUser(p), exercise |-> CurLog(p).exercise, pr_type |-> CurWork(p).kind,
     weight |-> IF CurWork(p).kind = "max_weight" THEN Quantize(CurValue(p)) ELSE NONE,
     volume |-> IF CurWork(p).kind = "max_volume" THEN Quantize(CurValue(p)) ELSE NONE,
     workout_log |-> wprocs[p].wid,
     date_achieved |-> workouts[wprocs[p].wid].workout_date]

Event(p) == [idx |-> CurWork(p).idx, exercise |-> CurLog(p).exercise,
             pr_type |-> CurWork(p).kind]

\* max_weight > (pr.weight or 0)
IsNewRecord(value, stored) == value > (IF Truthy(stored) THEN stored ELSE 0)

\* go on to the next check of the loop with prs_achieved = achieved, or, the loop
\* done, return the response
Advance(p, achieved) ==
    IF wprocs[p].pos < Len(Work(workouts[wprocs[p].wid].exercise_logs))
    THEN /\ wprocs' = [wprocs EXCEPT ![p] = [IdleW EXCEPT !.pc = "get",
                                                          !.wid = wprocs[p].wid,
                                                          !.pos = wprocs[p].pos + 1,
                                                          !.achieved = achieved]]
         /\ UNCHANGED reported
    ELSE /\ wprocs' = [wprocs EXCEPT ![p] = IdleW]
         /\ reported' = [reported EXCEPT ![wprocs[p].wid] = [done |-> TRUE, prs |-> achieved]]

\* with the row r read: keep it for the update when the value beats it
AfterGet(p, r) ==
    IF IsNewRecord(CurValue(p), prs[r][Column(CurWork(p).kind)])
    THEN /\ wprocs' = [wprocs EXCEPT ![p].pc = "save", ![p].pr = r, ![p].local = prs[r]]
         /\ UNCHANGED reported
    ELSE Advance(p, wprocs[p].achieved)

\* a WorkoutLog row with its ExerciseLogs as first stored: is_favorite defaults
\* to False; deleted marks a row removed from the table, its id never reused
NewWorkout(u, date, logs) ==
    [user |-> u, workout_date |-> date, exercise_logs |-> logs,
     is_favorite |-> FALSE, deleted |-> FALSE]

\* serializer.save(): the WorkoutLog and its ExerciseLogs
CreateWorkout(p, u, date, logs) ==
    /\ wprocs[p].pc = "idle"
    /\ Len(workouts) < MaxWorkouts
    /\ workouts' = Append(workouts, NewWorkout(u, date, logs))
    /\ IF Work(logs) = <<>>
       THEN /\ reported' = Append(reported, [done |-> TRUE, prs |-> <<>>])
            /\ UNCHANGED wprocs
       ELSE /\ reported' = Append(reported, [done |-> FALSE, prs |-> <<>>])
            /\ wprocs' = [wprocs EXCEPT ![p] = [IdleW EXCEPT !.pc = "get",
                                                             !.wid = Len(workouts) + 1,
                                                             !.pos = 1]]
    /\ UNCHANGED <<prs, connVars, stats>>

\* get_or_create: the SELECT
GetPR(p) ==
    /\ wprocs[p].pc = "get"
    /\ LET r == LookupPR(CurUser(p), CurLog(p).exercise, CurWork(p).kind)
       IN IF r = 0
          THEN /\ wprocs' = [wprocs EXCEPT ![p].pc = "create"]
               /\ UNCHANGED reported
          ELSE AfterGet(p, r)
    /\ UNCHANGED <<workouts, prs, connVars, stats>>

\* mutant: the table has no unique constraint
PRUniqueTogether_Missing(u, e, kind) == TRUE

\* Meta.unique_together = ['user', 'exercise', 'pr_type']: may a row be inserted
PRUniqueTogether(u, e, kind) == LookupPR(u, e, kind) = 0

\* get_or_create: the INSERT under unique_together (user, exercise, pr_type)
CreatePR(p) ==
    /\ wprocs[p].pc = "create"
    /\ IF PRUniqueTogether(CurUser(p), CurLog(p).exercise, CurWork(p).kind)
       THEN /\ prs' = Append(prs, NewPR(p))
            /\ Advance(p, Append(wprocs[p].achieved, Event(p)))
       ELSE \* IntegrityError: get_or_create reads the row another request inserted
            /\ wprocs' = [wprocs EXCEPT ![p].pc = "reget"]
            /\ UNCHANGED <<prs, reported>>
    /\ UNCHANGED <<workouts, connVars, stats>>

\* get_or_create: the SELECT after a lost INSERT
RegetPR(p) ==
    /\ wprocs[p].pc = "reget"
    /\ AfterGet(p, LookupPR(CurUser(p), CurLog(p).exercise, CurWork(p).kind))
    /\ UNCHANGED <<workouts, prs, connVars, stats>>

\* pr.save(): every column of the row is written from the instance read earlier
SavePR(p) ==
    /\ wprocs[p].pc = "save"
    /\ prs' = [prs EXCEPT ![wprocs[p].pr] =
                 [wprocs[p].local EXCEPT
                     ![Column(CurWork(p).kind)] = Quantize(CurValue(p)),
                     !.workout_log = wprocs[p].wid,
                     !.date_achieved = workouts[wprocs[p].wid].workout_date]]
    /\ Advance(p, Append(wprocs[p].achieved, Event(p)))
    /\ UNCHANGED <<workouts, connVars, stats>>

\* a creation starts only when no other is in flight
CreateWorkoutAlone(p, u, date, logs) ==
    /\ \A q \in 1..NWorkers : wprocs[q].pc = "idle"
    /\ CreateWorkout(p, u, date, logs)

\* ---- update, delete, favorite, copy and AI save
\* the number of WorkoutLog rows when these handlers are exercised
MaxStored == 2

\* mutant: the lookup does not filter on the user
GetWorkout_AnyUser(u, pk) == pk \in DOMAIN workouts /\ ~workouts[pk].deleted

\* WorkoutLog.objects.filter(user=request.user) narrowed to pk, and
\* WorkoutLog.objects.get(id=pk, user=request.user): is there such a row
GetWorkout(u, pk) ==
    pk \in DOMAIN workouts /\ ~workouts[pk].deleted /\ workouts[pk].user = u

\* PATCH bodies of WorkoutLogUpdateView tried by the model
UpdateBodies == { [exercise_logs |-> <<SquatHeavy>>], [is_favorite |-> TRUE] }

\* WorkoutLogCreateSerializer.update: the fields given are set; exercise_logs,
\* when given, replace the old exercise logs
SerializerUpdate(row, data) ==
    [f \in DOMAIN row |-> IF f \in DOMAIN data THEN data[f] ELSE row[f]]

\* WorkoutLogUpdateView: get_object on the user's own logs, or 404
UpdateWorkout(u, pk, data) ==
    /\ IF GetWorkout(u, pk)
       THEN /\ workouts' = [workouts EXCEPT ![pk] = SerializerUpdate(workouts[pk], data)]
            /\ resp' = Response("update", u, pk, 200)
       ELSE /\ resp' = Response("update", u, pk, 404)
            /\ UNCHANGED workouts
    /\ UNCHANGED <<conns, profile, now, procs, prs, wprocs, reported, stats>>

\* mutant: the records achieved in a deleted workout go with it
PRsAfterDelete_Cascade(pk) ==
    LET Kept(row) == row.workout_log # pk
    IN SelectSeq(prs, Kept)

\* PersonalRecord.workout_log is on_delete=SET_NULL
PRsAfterDelete(pk) ==
    [i \in DOMAIN prs |->
        IF prs[i].workout_log = pk THEN [prs[i] EXCEPT !.workout_log = NONE] ELSE prs[i]]

\* WorkoutLogDeleteView: get_object on the user's own logs, or 404; the
\* ExerciseLogs are deleted with the WorkoutLog (on_delete=CASCADE)
DeleteWorkout(u, pk) ==
    /\ IF GetWorkout(u, pk)
       THEN /\ workouts' = [workouts EXCEPT ![pk].deleted = TRUE,
                                            ![pk].exercise_logs = <<>>]
            /\ prs' = PRsAfterDelete(pk)
            /\ resp' = Response("delete", u, pk, 204)
       ELSE /\ resp' = Response("delete", u, pk, 404)
            /\ UNCHANGED <<workouts, prs>>
    /\ UNCHANGED <<conns, profile, now, procs, wprocs, reported, stats>>

toggle_favorite(u, pk) ==
    /\ IF GetWorkout(u, pk)
       THEN /\ workouts' = [workouts EXCEPT ![pk].is_favorite = ~workouts[pk].is_favorite]
            /\ resp' = Response("favorite", u, pk, 200)
       ELSE /\ resp' = Response("favorite", u, pk, 404)
            /\ UNCHANGED workouts
    /\ UNCHANGED <<conns, profile, now, procs, prs, wprocs, reported, stats>>

\* copy_workout: CopyWorkoutSerializer.validate_source_workout_id answers 400
\* unless the source is the user's own; the copy is a new WorkoutLog on new_date
\* with the exercise logs of the source. No PR check is made.
copy_workout(u, source_id, new_date) ==
    /\ IF GetWorkout(u, source_id)
       THEN /\ Len(workouts) < MaxStored
            /\ workouts' = Append(workouts,
                              NewWorkout(u, new_date, workouts[source_id].exercise_logs))
            /\ reported' = Append(reported, [done |-> TRUE, prs |-> <<>>])
            /\ resp' = Response("copy", u, source_id, 201)
       ELSE /\ resp' = Response("copy", u, source_id, 400)
            /\ UNCHANGED <<workouts, reported>>
    /\ UNCHANGED <<conns, profile, now, procs, prs, wprocs, stats>>

\* an exercise id with no Exercise row
NoExercise == "ghost"

\* the `exercises` lists of save_ai_workout bodies tried by the model
AIPlans == { <<>>, <<"squat">>, <<"squat", NoExercise>>, <<NoExercise>> }

\* the ExerciseLogs save_ai_workout creates: one, with sets_data=[], for each
\* entry whose Exercise.objects.get succeeds; the others are skipped (continue)
AILogs(exercises) ==
    LET Known(e) == e \in Exercises
        kept == SelectSeq(exercises, Known)
    IN [k \in DOMAIN kept |-> [exercise |-> kept[k], sets_data |-> <<>>]]

\* save_ai_workout: 400 for an empty list; otherwise the WorkoutLog is created
\* dated today, then the exercise logs. No PR check is made.
save_ai_workout(u, exercises) ==
    /\ IF exercises = <<>>
       THEN /\ resp' = Response("ai_save", u, 0, 400)
            /\ UNCHANGED <<workouts, reported>>
       ELSE /\ Len(workouts) < MaxStored
            /\ workouts' = Append(workouts, NewWorkout(u, now, AILogs(exercises)))
            /\ reported' = Append(reported, [done |-> TRUE, prs |-> <<>>])
            /\ resp' = Response("ai_save", u, Len(workouts) + 1, 201)
    /\ UNCHANGED <<conns, profile, now, procs, prs, wprocs, stats>>

\* no PR check is in flight
Quiet == \A q \in 1..NWorkers : wprocs[q].pc = "idle"

\* bodies of WorkoutLogCreateView tried together with the other handlers
StoredChoices == { <<SquatPlain>>, <<SquatHeavy>> }

\* ---- calculate_streak
\* the day count after which the scan stops
StreakCap == 365

\* the date of the model's first instant, far enough from 0 for a long history
Today == 1000

\* mutant: the log of any user counts
HasWorkout_AnyUser(u, d) ==
    \E i \in DOMAIN workouts : ~workouts[i].deleted /\ workouts[i].workout_date = d

\* WorkoutLog.objects.filter(user=user, workout_date=current_date).exists()
HasWorkout(u, d) ==
    \E i \in DOMAIN workouts :
        ~workouts[i].deleted /\ workouts[i].user = u /\ workouts[i].workout_date = d

\* workout_stats calls calculate_streak(user): today = timezone.now().date(),
\* streak = 0, current_date = today
workout_stats(u) ==
    /\ stats.pc # "scan"
    /\ stats' = [user |-> u, pc |-> "scan", current_date |-> now, streak |-> 0]
    /\ UNCHANGED <<connVars, workouts, prs, wprocs, reported>>

\* one pass of the while loop of calculate_streak: the query for current_date,
\* then either the count and the step back, with the cap test, or the break;
\* after the loop the response is sent
calculate_streak ==
    /\ stats.pc = "scan"
    /\ IF HasWorkout(stats.user, stats.current_date)
       THEN stats' = [stats EXCEPT
                         !.streak = stats.streak + 1,
                         !.current_date = stats.current_date - 1,
                         !.pc = IF now - (stats.current_date - 1) > StreakCap
                                THEN "done" ELSE "scan"]
       ELSE stats' = [stats EXCEPT !.pc = "done"]
    /\ IF stats'.pc = "done"
       THEN resp' = Response("stats", stats.user, 0, 200)
       ELSE UNCHANGED resp
    /\ UNCHANGED <<conns, profile, now, procs, workouts, prs, wprocs, reported>>

\* a workout history: c1 logged on each of the n days up to today, except the
\* day `gap` days back (NONE: no gap), on which c2 logged instead
History(n, gap) ==
    LET days == [k \in 1..n |-> NewWorkout("c1", Today - (k - 1), <<>>)]
        Kept(row) == gap = NONE \/ row.workout_date # Today - gap
    IN SelectSeq(days, Kept) \o
       (IF gap = NONE THEN <<>>
        ELSE <<NewWorkout("c2", Today - gap, <<>>)>>)

HistoryLengths == (0..MaxShort) \cup ((StreakCap - 1)..(StreakCap + MaxOver))

InitStreak ==
    /\ conns = <<>>
    /\ profile = InitialProfile
    /\ now = Today
    /\ procs = [p \in 1..NProcs |-> Idle]
    /\ resp = Response("none", NoUser, 0, 0)
    /\ \E n \in HistoryLengths, gap \in {NONE} \cup (0..MaxShort) :
          workouts = History(n, gap)
    /\ prs = <<>>
    /\ wprocs = [p \in 1..NWorkers |-> IdleW]
    /\ reported = [i \in DOMAIN workouts |-> [done |-> TRUE, prs |-> <<>>]]
    /\ stats = IdleStats

NextStreak ==
    \/ \E u \in Users : workout_stats(u)
    \/ calculate_streak

SpecStreak == InitStreak /\ [][NextStreak]_vars

\* the first workout of the table, with one squat log of any sets_data
CreateSets(p, u, sets_data) ==
    /\ workouts = <<>>
    /\ CreateWorkout(p, u, 1, <<[exercise |-> "squat", sets_data |-> sets_data]>>)

\* one workout created for every sets_data, and its PR check
NextSets ==
    \/ \E p \in 1..NWorkers, u \in PRUsers, sets_data \in SetsChoices :
          CreateSets(p, u, sets_data)
    \/ \E p \in 1..NWorkers : GetPR(p)
    \/ \E p \in 1..NWorkers : CreatePR(p)

SpecSets == Init /\ [][NextSets]_vars

\* the workout handlers, requests served one after the other
NextWorkouts ==
    \/ \E p \in 1..NWorkers, u \in PRUsers, date \in RaceDates, logs \in StoredChoices :
          Len(workouts) < MaxStored /\ CreateWorkoutAlone(p, u, date, logs)
    \/ \E p \in 1..NWorkers : GetPR(p)
    \/ \E p \in 1..NWorkers : CreatePR(p)
    \/ \E p \in 1..NWorkers : SavePR(p)
    \/ \E u \in PRUsers, pk \in 1..MaxStored, data \in UpdateBodies :
          Quiet /\ UpdateWorkout(u, pk, data)
    \/ \E u \in PRUsers, pk \in 1..MaxStored : Quiet /\ DeleteWorkout(u, pk)
    \/ \E u \in PRUsers, pk \in 1..MaxStored : Quiet /\ toggle_favorite(u, pk)
    \/ \E u \in PRUsers, pk \in 1..MaxStored, date \in RaceDates :
          Quiet /\ copy_workout(u, pk, date)
    \/ \E u \in PRUsers, exercises \in AIPlans : Quiet /\ save_ai_workout(u, exercises)

SpecWorkouts == Init /\ [][NextWorkouts]_vars

\* workout creations one after the other
NextPRSeq ==
    \/ \E p \in 1..NWorkers, u \in PRUsers, date \in Dates, logs \in WorkoutChoices :
          CreateWorkoutAlone(p, u, date, logs)
    \/ \E p \in 1..NWorkers : GetPR(p)
    \/ \E p \in 1..NWorkers : CreatePR(p)
    \/ \E p \in 1..NWorkers : SavePR(p)

SpecPRSeq == Init /\ [][NextPRSeq]_vars

\* workout creations interleaved at their database operations
NextPR ==
    \/ \E p \in 1..NWorkers, u \in PRUsers, date \in RaceDates, logs \in WorkoutChoices :
          CreateWorkout(p, u, date, logs)
    \/ \E p \in 1..NWorkers : GetPR(p)
    \/ \E p \in 1..NWorkers : CreatePR(p)
    \/ \E p \in 1..NWorkers : RegetPR(p)
    \/ \E p \in 1..NWorkers : SavePR(p)

SpecPR == Init /\ [][NextPR]_vars

\* ===================================================================== claims
Terminal == {"ended", "rejected"}

Flags(row) == [f \in PermissionFlags |-> row[f]]

IsParty(u, id) == id \in DOMAIN conns /\ (conns[id].trainer = u \/ conns[id].client = u)

\* the step is a call of the handler by resp'.user on connection id resp'.id
AcceptStep == resp'.op = "accept" /\ accept_connection_request(resp'.user, resp'.id)
EndStep == resp'.op = "end" /\ end_connection(resp'.user, resp'.id)
PermissionsStep ==
    /\ resp'.op = "permissions"
    /\ \E req \in PermissionRequests :
          update_connection_permissions(resp'.user, resp'.id, req)

\* C1: once a connection's status is ended or rejected, no call changes its
\* status again.
C1_TerminalAbsorbing ==
    [][\A i \in DOMAIN conns :
          conns[i].status \in Terminal => conns'[i].status = conns[i].status]_vars

\* C2: end_connection changes a connection only when the actor is a party of
\* the record and its status is active or paused (then status = ended and
\* ended_at is set); on a pending record, or for a user who is no party, it
\* fails and the record is unchanged.
C2_EndContract ==
    [][EndStep =>
          LET u == resp'.user
              id == resp'.id
          IN IF IsParty(u, id) /\ conns[id].status \in {"active", "paused"}
             THEN /\ conns' = [conns EXCEPT ![id].status = "ended", ![id].ended_at = now]
                  /\ resp'.code = 200
             ELSE (~IsParty(u, id) \/ conns[id].status = "pending")
                     => (conns' = conns /\ resp'.code # 200)]_vars

\* C3: accept_connection_request changes a connection only when the caller is
\* the trainer named on the record and the record is pending; then status
\* becomes active and connected_at is set. In every other case it fails (403 or
\* 404) and no connection record changes.
C3_AcceptContract ==
    [][AcceptStep =>
          LET u == resp'.user
              id == resp'.id
          IN IF /\ Role[u] = "trainer"
                /\ id \in DOMAIN conns
                /\ conns[id].trainer = u
                /\ conns[id].status = "pending"
             THEN /\ conns' = [conns EXCEPT ![id].status = "active",
                                            ![id].connected_at = now]
                  /\ resp'.code = 200
             ELSE conns' = conns /\ resp'.code \in {403, 404}]_vars

\* C3 witness: a trainer who is not the one named on a pending record tried to
\* accept it and got 404; the record is still pending.
C3_Witness ==
    /\ resp.op = "accept" /\ resp.code = 404
    /\ resp.id \in DOMAIN conns
    /\ Role[resp.user] = "trainer"
    /\ conns[resp.id].trainer # resp.user
    /\ conns[resp.id].status = "pending"

\* C7: the six permission flags of a record change only in a successful
\* update_connection_permissions call by the client named on it; the call by
\* the record's trainer fails with 403, by another client with 404, and then no
\* record changes.
C7_FlagsOnlyByClient ==
    [][/\ conns' # conns =>
             \A i \in DOMAIN conns :
                (\E f \in PermissionFlags : conns'[i][f] # conns[i][f]) =>
                   /\ resp' = Response("permissions", conns[i].client, i, 200)
                   /\ PermissionsStep
       /\ (/\ PermissionsStep
           /\ resp'.id \in DOMAIN conns
           /\ conns[resp'.id].client # resp'.user)
          => /\ conns' = conns
             /\ resp'.code = IF Role[resp'.user] = "trainer" THEN 403 ELSE 404]_vars

\* C7 witness: the trainer named on a record tried to update its permissions
\* and was refused with 403.
C7_Witness ==
    /\ resp.op = "permissions" /\ resp.code = 403
    /\ resp.id \in DOMAIN conns
    /\ conns[resp.id].trainer = resp.user

\* C8: update_connection_permissions by the record's client on a record whose
\* status is ended or rejected fails and leaves the six flags as they were.
C8_NoUpdateWhenTerminal ==
    [][(/\ PermissionsStep
        /\ resp'.id \in DOMAIN conns
        /\ conns[resp'.id].client = resp'.user
        /\ conns[resp'.id].status \in Terminal)
       => /\ resp'.code # 200
          /\ Flags(conns'[resp'.id]) = Flags(conns[resp'.id])]_vars

\* C9: end_connection on a record that is already ended fails, and ended_at
\* keeps the value the first termination gave it.
C9_EndTwiceFails ==
    [][(/\ EndStep
        /\ IsParty(resp'.user, resp'.id)
        /\ conns[resp'.id].status = "ended")
       => /\ resp'.code # 200
          /\ conns'[resp'.id].ended_at = conns[resp'.id].ended_at]_vars

C4_OneRowPerPair ==
    \A i, j \in DOMAIN conns :
        (conns[i].trainer = conns[j].trainer /\ conns[i].client = conns[j].client) => i = j

\* C4 witness: two requests of the same client for the same trainer both passed
\* the existence check and the validate_unique query; one has inserted its row,
\* the other is about to insert.
C4_Witness ==
    \E p \in 1..NProcs :
        /\ procs[p].pc = "insert"
        /\ resp = Response("request", procs[p].client, Len(conns), 201)
        /\ conns # <<>>
        /\ conns[Len(conns)].trainer = procs[p].trainer
        /\ conns[Len(conns)].client = procs[p].client

\* the max_weight PersonalRecord rows of user u for exercise e
WeightRows(u, e) ==
    {r \in DOMAIN prs : prs[r].user = u /\ prs[r].exercise = e /\ prs[r].pr_type = "max_weight"}

\* the creation of workout w reported a max_weight PR for its exercise log a
WeightReported(w, a) ==
    \E k \in DOMAIN reported[w].prs :
        reported[w].prs[k].idx = a /\ reported[w].prs[k].pr_type = "max_weight"

\* two exercise logs of one user, for one exercise, with one max weight, in
\* workouts created one after the other: one row, and at most one of the two
\* creations reported a max_weight PR
SameWeightOnce ==
    \A i, j \in DOMAIN workouts :
        (i < j /\ workouts[i].user = workouts[j].user /\ reported[i].done /\ reported[j].done) =>
           \A a \in DOMAIN workouts[i].exercise_logs, b \in DOMAIN workouts[j].exercise_logs :
              LET la == workouts[i].exercise_logs[a]
                  lb == workouts[j].exercise_logs[b]
              IN (/\ la.exercise = lb.exercise
                  /\ get_max_weight(la.sets_data) = get_max_weight(lb.sets_data)
                  /\ get_max_weight(la.sets_data) > 0)
                 => /\ Cardinality(WeightRows(workouts[i].user, la.exercise)) = 1
                    /\ ~(WeightReported(i, a) /\ WeightReported(j, b))

\* a stored max_weight row changes only in the save of a creation whose max
\* weight is strictly greater than the stored weight, and its weight never
\* decreases
OnlyGreaterUpdates ==
    \A r \in DOMAIN prs :
        (prs[r].pr_type = "max_weight" /\ prs'[r] # prs[r]) =>
           /\ \E p \in 1..NWorkers :
                 /\ wprocs[p].pc = "save" /\ wprocs[p].pr = r
                 /\ CurValue(p) > prs[r].weight
                 /\ prs'[r].workout_log = wprocs[p].wid
                 /\ prs'[r].date_achieved = workouts[wprocs[p].wid].workout_date
                 /\ Len(reported'[wprocs[p].wid].prs) + Len(wprocs'[p].achieved)
                       > Len(wprocs[p].achieved)
           /\ prs'[r].weight >= prs[r].weight

\* C5: an existing max_weight record is updated and reported only for a
\* strictly greater max weight; an equal or lower one changes and reports
\* nothing; so the stored weight never decreases, and the same max weight
\* submitted twice yields one record and one reported event.
C5_StrictlyGreaterRule ==
    [][OnlyGreaterUpdates /\ SameWeightOnce']_vars

\* the part of C5 the code keeps: updates only on strictly greater, never down
C5_OnlyGreaterUpdates == [][OnlyGreaterUpdates]_vars

\* the max weights user u has submitted for exercise e
Submitted(u, e) ==
    UNION { { get_max_weight(workouts[i].exercise_logs[a].sets_data) :
                a \in {b \in DOMAIN workouts[i].exercise_logs :
                         workouts[i].exercise_logs[b].exercise = e} } :
            i \in {k \in DOMAIN workouts : workouts[k].user = u} }

\* C6: when workout creations for one user and exercise run concurrently, then
\* once all have completed the stored max weight is the maximum of the values
\* submitted (as the column stores it); no PR is lost to a later write of a
\* smaller value.
C6_NoLostUpdate ==
    (\A p \in 1..NWorkers : wprocs[p].pc = "idle") =>
       \A u \in PRUsers, e \in Exercises :
          \A v \in Submitted(u, e) :
             v > 0 => \E r \in WeightRows(u, e) : prs[r].weight >= Quantize(v)

\* ------------------------------------------------------------ claims C11-C20
\* a re-request by client u to trainer tid over a pending or active record is
\* answered with the error of that status, and the table stays as it is
ReRequestRefused(u, tid) ==
    LET e == Existing(tid, u)
    IN (/\ resp'.op = "request" /\ resp'.user = u
        /\ e # 0 /\ conns[e].status \in {"pending", "active"}
        /\ RequestConnection(u, tid))
          => /\ resp'.error = (IF conns[e].status = "pending"
                               THEN "AlreadyPending" ELSE "AlreadyActive")
             /\ conns' = conns

\* C11 as stated: a request by a client for a trainer with whom the client has
\* a pending (active) record fails with AlreadyPending (AlreadyActive); the
\* record is unchanged and no record is created.
C11_Original ==
    [][\A u \in Clients, tid \in Trainers : ReRequestRefused(u, tid)]_vars

\* C11 amended: the same, for a trainer who can accept clients at the time of
\* the request; for a trainer who cannot, the request fails with the
\* serializer's NotAccepting error; in every case the request is refused with
\* status 400 and the table stays as it is.
C11_ReRequestRefused ==
    [][\A u \in Clients, tid \in Trainers :
          LET e == Existing(tid, u)
          IN /\ can_accept_clients(tid) => ReRequestRefused(u, tid)
             /\ (/\ resp'.op = "request" /\ resp'.user = u
                 /\ e # 0 /\ conns[e].status \in {"pending", "active"}
                 /\ RequestConnection(u, tid))
                   => /\ resp'.code = 400 /\ conns' = conns
                      /\ ~can_accept_clients(tid) => resp'.error = "NotAccepting"]_vars

\* a re-request over an active record was answered AlreadyActive
C11_Witness ==
    /\ resp.op = "request" /\ resp.error = "AlreadyActive"
    /\ \E i \in DOMAIN conns : conns[i].client = resp.user /\ conns[i].status = "active"

\* C12: a request for a pair whose record is rejected or ended either returns
\* that same record to pending or is refused with a request-level error that
\* leaves the record unchanged; it never ends in an unhandled failure (500).
C12_ReRequestAfterTerminal ==
    [][\A u \in Clients, tid \in Trainers :
          LET e == Existing(tid, u)
          IN (/\ resp'.op = "request" /\ resp'.user = u
              /\ e # 0 /\ conns[e].status \in Terminal
              /\ RequestConnection(u, tid))
                => /\ resp'.code # 500
                   /\ \/ /\ Len(conns') = Len(conns)
                         /\ conns'[e].status = "pending"
                         /\ resp'.code \in {200, 201}
                      \/ /\ conns' = conns
                         /\ resp'.code \in {400, 403, 409}]_vars

\* the preconditions of RequestConnection, at the time of the request
RequestAllowed(u, tid) ==
    /\ Role[u] = "client"
    /\ tid \in Users /\ Role[tid] = "trainer"
    /\ can_accept_clients(tid)

\* C13: a request creates a record only if the requester is a client, the
\* target exists and is a trainer, and the target can accept clients at the
\* time of the request; otherwise it is refused (403 or 400) and the table is
\* unchanged.
C13_CreatesOnlyWhenAllowed ==
    [][resp'.op = "request" =>
         \A tid \in Users \cup {NoUser} :
            RequestConnection(resp'.user, tid) =>
               /\ conns' # conns => RequestAllowed(resp'.user, tid)
               /\ ~RequestAllowed(resp'.user, tid)
                     => conns' = conns /\ resp'.code \in {400, 403}]_vars

\* a request to a trainer who is at max_clients was refused
C13_Witness ==
    /\ resp.op = "request" /\ resp.error = "NotAccepting"
    /\ \E t \in Trainers :
          /\ profile[t].is_accepting_clients /\ profile[t].subscription_active
          /\ current_client_count(t) >= profile[t].max_clients
          /\ ~can_accept_clients(t)

\* C14: a successful request for a pair with no record yields a pending record
\* with requested_at set, connected_at and ended_at null, the three workout
\* flags true and the three other flags false.
C14_NewRecordDefaults ==
    [][(resp'.op = "request" /\ resp'.code = 201) =>
         \A tid \in Trainers :
            (Existing(tid, resp'.user) = 0 /\ RequestConnection(resp'.user, tid)) =>
               /\ Len(conns') = Len(conns) + 1
               /\ resp'.id = Len(conns')
               /\ LET row == conns'[resp'.id]
                  IN /\ row.trainer = tid /\ row.client = resp'.user
                     /\ row.status = "pending"
                     /\ row.requested_at = now /\ row.requested_at # NONE
                     /\ row.connected_at = NONE /\ row.ended_at = NONE
                     /\ row.can_view_workouts /\ row.can_assign_workouts
                     /\ row.can_comment_workouts
                     /\ ~row.can_view_nutrition /\ ~row.can_view_progress_photos
                     /\ ~row.can_view_body_metrics
               /\ \A i \in DOMAIN conns : conns'[i] = conns[i]]_vars

\* a request has just created a record
C14_Witness ==
    /\ resp.op = "request" /\ resp.code = 201
    /\ resp.id = Len(conns) /\ conns[resp.id].status = "pending"
    /\ conns[resp.id].client = resp.user

\* C15: reject_connection_request changes a connection only when the caller is
\* the trainer named on the record and the record is pending; then status
\* becomes rejected, the supplied reason is stored and connected_at stays
\* null. In every other case it fails (403 or 404) and no record changes.
C15_RejectContract ==
    [][resp'.op = "reject" =>
         \A reason \in Reasons :
            reject_connection_request(resp'.user, resp'.id, reason) =>
               LET u == resp'.user
                   id == resp'.id
               IN IF /\ Role[u] = "trainer"
                     /\ id \in DOMAIN conns
                     /\ conns[id].trainer = u
                     /\ conns[id].status = "pending"
                  THEN /\ conns' = [conns EXCEPT ![id].status = "rejected",
                                                 ![id].rejection_reason = reason]
                       /\ conns'[id].connected_at = NONE
                       /\ resp'.code = 200
                  ELSE conns' = conns /\ resp'.code \in {403, 404}]_vars

\* the trainer named on an active record tried to reject it and got 404; the
\* record is still active and holds no reason
C15_Witness ==
    /\ resp.op = "reject" /\ resp.code = 404
    /\ resp.id \in DOMAIN conns
    /\ conns[resp.id].trainer = resp.user
    /\ conns[resp.id].status = "active"
    /\ conns[resp.id].rejection_reason = ""

\* the events of a sequence of reported PRs
Events(list) == {list[k] : k \in DOMAIN list}

\* process p inserts the first max_weight record of its user and exercise
\* with weight w, this workout as reference and its date, changes no other
\* row, and has the record in its list of achieved PRs
FirstWeightRecord(p, w) ==
    (/\ wprocs[p].pc = "create" /\ CurWork(p).kind = "max_weight"
     /\ LookupPR(CurUser(p), CurLog(p).exercise, "max_weight") = 0
     /\ CreatePR(p))
       => /\ prs' = Append(prs, [user |-> CurUser(p), exercise |-> CurLog(p).exercise,
                                 pr_type |-> "max_weight", weight |-> w, volume |-> NONE,
                                 workout_log |-> wprocs[p].wid,
                                 date_achieved |-> workouts[wprocs[p].wid].workout_date])
          /\ Cardinality(WeightRows(CurUser(p), CurLog(p).exercise)') = 1
          /\ Event(p) \in Events(wprocs'[p].achieved)
                            \cup Events(reported'[wprocs[p].wid].prs)

\* the returned list of a finished creation holds the max_weight record that
\* refers to it; an exercise log with max weight 0 is never reported, and
\* every max_weight record belongs to a log with a max weight above 0
WeightRecordsReported ==
    /\ \A r \in DOMAIN prs :
          prs[r].pr_type = "max_weight" =>
             /\ reported[prs[r].workout_log].done =>
                   \E ev \in Events(reported[prs[r].workout_log].prs) :
                      ev.exercise = prs[r].exercise /\ ev.pr_type = "max_weight"
             /\ \E v \in Submitted(prs[r].user, prs[r].exercise) : v > 0
    /\ \A w \in DOMAIN workouts, a \in 1..2 :
          (/\ a \in DOMAIN workouts[w].exercise_logs
           /\ get_max_weight(workouts[w].exercise_logs[a].sets_data) = 0)
             => ~WeightReported(w, a)

C17_OneRecordPerTriple ==
    \A i, j \in DOMAIN prs :
       (/\ prs[i].user = prs[j].user
        /\ prs[i].exercise = prs[j].exercise
        /\ prs[i].pr_type = prs[j].pr_type) => i = j

\* two creations raced for the first record: one inserted it, the other lost
\* the INSERT and is about to read the winner's row
C17_Witness ==
    \E p \in 1..NWorkers :
       /\ wprocs[p].pc = "reget"
       /\ LookupPR(CurUser(p), CurLog(p).exercise, CurWork(p).kind) # 0
       /\ prs[LookupPR(CurUser(p), CurLog(p).exercise, CurWork(p).kind)].workout_log
             # wprocs[p].wid

\* can_accept_clients as the capability model states it
CanAcceptClients(u) ==
    /\ Role[u] = "trainer"
    /\ profile[u].is_accepting_clients
    /\ profile[u].subscription_active
    /\ \/ profile[u].max_clients = NONE
       \/ current_client_count(u) < profile[u].max_clients

\* C18: for every profile and every max_clients (unset, 0 or positive),
\* can_accept_clients is true exactly when the user is a trainer, accepts
\* clients, has an active subscription, and max_clients is unset or the number
\* of active connections is below it.
C18_CanAcceptClients ==
    \A u \in Users : can_accept_clients(u) <=> CanAcceptClients(u)

\* C19: no trainer profile is stored with is_accepting_clients true and
\* hourly_rate null: a write that would store one fails and leaves the row as
\* it was.
C19_AcceptingNeedsRate ==
    [][\A t \in Trainers :
          profile'[t] # profile[t] => ProfileClean(t, profile'[t])]_vars

\* the roles the connection invariant asks of a (trainer, client) pair
RolesValid(t, c) == Role[t] = "trainer" /\ Role[c] = "client" /\ t # c

\* C20: every stored connection has a trainer of role trainer, a client of
\* role client, and the two differ; a save of a connection that breaks one of
\* these fails validation and stores nothing.
C20_RolesValidated ==
    [][/\ \A i \in DOMAIN conns' : RolesValid(conns'[i].trainer, conns'[i].client)
       /\ resp'.op = "save" =>
             \A t \in Users, c \in Users :
                (save(t, c) /\ ~RolesValid(t, c)) =>
                   conns' = conns /\ resp'.error = "ValidationError"]_vars

\* a save of a connection whose client is a trainer failed, with rows stored
C20_Witness ==
    /\ resp.op = "save" /\ resp.error = "ValidationError"
    /\ Role[resp.user] = "trainer"
    /\ conns # <<>>

\* ------------------------------------------------------------ claims C21-C30
\* C27: requested_at never changes; connected_at changes only from null, in a
\* successful accept of that record, to the time of the accept; ended_at
\* leaves null only in a successful end_connection of that record.
C27_Timestamps ==
    [][\A i \in DOMAIN conns :
          /\ conns'[i].requested_at = conns[i].requested_at
          /\ conns'[i].connected_at # conns[i].connected_at =>
                /\ conns[i].connected_at = NONE
                /\ AcceptStep /\ resp'.id = i /\ resp'.code = 200
                /\ conns'[i].connected_at = now
          /\ (conns[i].ended_at = NONE /\ conns'[i].ended_at # NONE) =>
                /\ EndStep /\ resp'.id = i /\ resp'.code = 200
                /\ conns'[i].ended_at = now]_vars

\* a record requested at one time, accepted at a later one and then ended
C27_Witness ==
    \E i \in DOMAIN conns :
       /\ conns[i].status = "ended"
       /\ conns[i].connected_at # NONE /\ conns[i].ended_at # NONE
       /\ conns[i].requested_at < conns[i].connected_at

\* C28: a successful update_connection_permissions sets the flags named in the
\* request to the given values; the flags not named, status, trainer, client
\* and the three timestamps of the record, and every other record, stay as
\* they were.
C28_PartialUpdate ==
    [][(resp'.op = "permissions" /\ resp'.code = 200) =>
         \A req \in PermissionRequests :
            update_connection_permissions(resp'.user, resp'.id, req) =>
               /\ DOMAIN conns' = DOMAIN conns
               /\ \A i \in DOMAIN conns : i # resp'.id => conns'[i] = conns[i]
               /\ \A f \in DOMAIN conns[resp'.id] :
                     conns'[resp'.id][f] =
                        IF f \in PermissionFlags /\ f \in DOMAIN req
                        THEN req[f] ELSE conns[resp'.id][f]]_vars

\* a successful update of an active record: the named flags hold the given
\* values, a flag not named holds its default
C28_Witness ==
    /\ resp.op = "permissions" /\ resp.code = 200
    /\ conns[resp.id].status = "active"
    /\ ~conns[resp.id].can_view_workouts /\ conns[resp.id].can_view_body_metrics
    /\ conns[resp.id].can_assign_workouts /\ ~conns[resp.id].can_view_nutrition

\* C30: an accept never takes a trainer's number of active connections above
\* the trainer's max_clients, when max_clients is set (and positive).
C30_AcceptWithinMaxClients ==
    [][(AcceptStep /\ resp'.code = 200) =>
         \A t \in Trainers :
            (profile[t].max_clients # NONE /\ profile[t].max_clients > 0) =>
               Cardinality({i \in DOMAIN conns' :
                              conns'[i].trainer = t /\ conns'[i].status = "active"})
                  <= profile[t].max_clients]_vars

\* the indices of the sets whose completed flag is true
Completed(sets_data) ==
    {i \in DOMAIN sets_data :
        "completed" \in DOMAIN sets_data[i] /\ sets_data[i].completed}

\* the sum of reps x weight over the sets with index in idx
RECURSIVE SumOver(_, _)
SumOver(sets_data, idx) ==
    IF idx = {} THEN 0
    ELSE LET i == CHOOSE j \in idx : TRUE
         IN sets_data[i].reps * sets_data[i].weight + SumOver(sets_data, idx \ {i})

\* the sets_data of every stored exercise log
StoredSets ==
    UNION { {workouts[w].exercise_logs[a].sets_data : a \in DOMAIN workouts[w].exercise_logs} :
            w \in DOMAIN workouts }

\* C21: calculate_volume is the sum of reps x weight over exactly the sets
\* whose completed flag is true; a set that is incomplete or has no flag adds
\* nothing.
C21_Volume ==
    \A sets_data \in StoredSets :
       calculate_volume(sets_data) = SumOver(sets_data, Completed(sets_data))

\* the example of the claim: completed 10x100 and 8x110 with an incomplete
\* 5x120 were logged, and the volume record holds 1880
C21_Witness ==
    /\ SquatHeavy.sets_data \in StoredSets
    /\ \E r \in DOMAIN prs : prs[r].pr_type = "max_volume" /\ prs[r].volume = 1880000

\* C22: get_max_weight is the greatest weight among the completed sets, and 0
\* when no set is completed, the empty sequence included; incomplete sets do
\* not count.
C22_MaxWeight ==
    \A sets_data \in StoredSets :
       LET m == get_max_weight(sets_data)
           done == Completed(sets_data)
       IN IF done = {} THEN m = 0
          ELSE /\ \E i \in done : sets_data[i].weight = m
               /\ \A i \in done : sets_data[i].weight <= m

\* a log whose heaviest set is incomplete was checked: the weight record holds
\* the heaviest completed weight
C22_Witness ==
    /\ \E sets_data \in StoredSets :
          \E i \in DOMAIN sets_data \ Completed(sets_data) :
             sets_data[i].weight > get_max_weight(sets_data) /\ get_max_weight(sets_data) > 0
    /\ \E r \in DOMAIN prs : prs[r].pr_type = "max_weight" /\ prs[r].weight = 110000

\* the number of consecutive days, counted back from today inclusive, on each
\* of which user u has a log
Run(u) ==
    LET dates == {workouts[i].workout_date :
                    i \in {j \in DOMAIN workouts :
                             ~workouts[j].deleted /\ workouts[j].user = u}}
        missing == {k \in 0..Len(workouts) : (now - k) \notin dates}
    IN CHOOSE k \in missing : \A j \in missing : k <= j

\* the step in which calculate_streak returns
StreakReturns == stats.pc = "scan" /\ stats'.pc = "done" /\ calculate_streak

\* C23 as stated: calculate_streak returns the number of consecutive days back
\* from today, today included, on which the user has a log, stopping at the
\* first day without one.
C23_Original ==
    [][StreakReturns => stats'.streak = Run(stats.user)]_vars

\* C23 amended: the same whenever that number is at most the scan's cap of
\* 365; beyond it the result is at least the cap and at most the number.
C23_Streak ==
    [][StreakReturns =>
          IF Run(stats.user) <= StreakCap
          THEN stats'.streak = Run(stats.user)
          ELSE /\ stats'.streak >= StreakCap
               /\ stats'.streak <= Run(stats.user)]_vars

\* the example of the claim: logs on D, D-1, D-2, none on D-3, older logs
\* behind the gap, and the streak returned is 3
C23_Witness ==
    /\ stats.user = "c1" /\ stats.pc = "done" /\ stats.streak = 3
    /\ HasWorkout("c1", now) /\ HasWorkout("c1", now - 1) /\ HasWorkout("c1", now - 2)
    /\ ~HasWorkout("c1", now - 3) /\ HasWorkout("c1", now - 4)

\* C29: the streak returned never exceeds 365, the scan being stopped after
\* 365 days.
C29_StreakCapped == stats.pc = "done" => stats.streak <= StreakCap

\* steps of the handlers that name a workout
UpdateStep ==
    resp'.op = "update" /\ \E data \in UpdateBodies : UpdateWorkout(resp'.user, resp'.id, data)
DeleteStep == resp'.op = "delete" /\ DeleteWorkout(resp'.user, resp'.id)
FavoriteStep == resp'.op = "favorite" /\ toggle_favorite(resp'.user, resp'.id)
CopyStep ==
    resp'.op = "copy" /\ \E date \in RaceDates : copy_workout(resp'.user, resp'.id, date)
AISaveStep == resp'.op = "ai_save" /\ \E exercises \in AIPlans : save_ai_workout(resp'.user, exercises)

\* the request of the step names a stored workout of another user
NamesForeign ==
    /\ resp'.id \in DOMAIN workouts
    /\ ~workouts[resp'.id].deleted
    /\ workouts[resp'.id].user # resp'.user

\* C24: an update, delete, toggle-favorite or copy request that names a workout
\* of another user fails (404, 400 for copy) and leaves the whole table of
\* workouts, exercise logs and favorite flags included, as it was, creating
\* nothing; and a stored workout changes only in an update, delete or
\* toggle-favorite step of its owner.
C24_OwnerOnly ==
    [][/\ ((UpdateStep \/ DeleteStep \/ FavoriteStep \/ CopyStep) /\ NamesForeign)
            => /\ resp'.code = (IF resp'.op = "copy" THEN 400 ELSE 404)
               /\ workouts' = workouts
               /\ prs' = prs
       /\ \A i \in DOMAIN workouts :
            workouts'[i] # workouts[i]
            => /\ resp'.user = workouts[i].user
               /\ resp'.id = i
               /\ UpdateStep \/ DeleteStep \/ FavoriteStep]_vars

\* one of the four requests has been refused for a workout of another user
\* that is a favorite with exercise logs
C24_Witness ==
    /\ resp.op \in {"update", "delete", "favorite", "copy"}
    /\ resp.code \in {400, 404}
    /\ resp.id \in DOMAIN workouts
    /\ workouts[resp.id].user # resp.user
    /\ ~workouts[resp.id].deleted
    /\ workouts[resp.id].is_favorite
    /\ workouts[resp.id].exercise_logs # <<>>

\* C25: an AI plan with an entry whose exercise id cannot be resolved is
\* refused and nothing is stored.
C25_AllOrNothing ==
    [][\A exercises \in AIPlans :
          (/\ resp'.op = "ai_save"
           /\ save_ai_workout(resp'.user, exercises)
           /\ \E k \in DOMAIN exercises : exercises[k] \notin Exercises)
          => /\ resp'.code # 201
             /\ workouts' = workouts]_vars

\* the weight and volume of every PersonalRecord
RecordValues == [i \in DOMAIN prs |-> [weight |-> prs[i].weight, volume |-> prs[i].volume]]

\* C26: an update, a copy, an AI save (and a toggle-favorite and a delete)
\* create no PersonalRecord and leave the weight and volume of every one as
\* they were; records are created and their values changed only in the steps
\* of the PR check of a workout creation.
C26_RecordsOnlyByCheck ==
    [][/\ (UpdateStep \/ CopyStep \/ AISaveStep \/ FavoriteStep \/ DeleteStep)
            => RecordValues' = RecordValues
       /\ RecordValues' # RecordValues
            => \E p \in 1..NWorkers : CreatePR(p) \/ SavePR(p)]_vars

\* a workout has been updated to heavier sets and the record of its owner still
\* holds the weight of the lighter sets it was created with
C26_Witness ==
    /\ resp.op = "update" /\ resp.code = 200
    /\ workouts[resp.id].exercise_logs = <<SquatHeavy>>
    /\ \E i \in DOMAIN prs :
          /\ prs[i].user = resp.user
          /\ prs[i].exercise = "squat"
          /\ prs[i].pr_type = "max_weight"
          /\ prs[i].workout_log = resp.id
          /\ prs[i].weight = Quantize(get_max_weight(SquatPlain.sets_data))
          /\ prs[i].weight < Quantize(get_max_weight(SquatHeavy.sets_data))

====
